---- MODULE Spec2Model ----
(***************************************************************************)
(* Model of src/app.py: the agent Me, its tool executor handle_tool_call,  *)
(* the tool implementations and the agentic loop of Me.chat.               *)
(*                                                                         *)
(* Python values are represented as follows.                               *)
(*   - str: a TLA+ string; None where a str is expected: the string None   *)
(*     defined below (message content, a global that is not bound).        *)
(*   - a value returned by a tool: a record tagged by its Python type,     *)
(*     [py |-> "dict", items |-> ...] or [py |-> "None"].                  *)
(*   - an exception: the name of its class; NoError when nothing is raised.*)
(*   - a list: a sequence.  A dict of keyword arguments: a function from   *)
(*     parameter names to strings.                                         *)
(***************************************************************************)
EXTENDS Integers, Sequences, FiniteSets, TLC

\* src/app.py:211
max_iterations == 10

\* Longest batch of tool calls the gateway stub requests in one response.
MaxBatch == 2
\* Longest prior history the caller passes to chat.
MaxHist == 1

None == "<None>"
NoError == "<no exception>"

\* The two turns that may run on the one agent (gradio serves each request
\* on its own thread).
Turns == {1, 2}

-----------------------------------------------------------------------------
(* json.loads / json.dumps on the texts that occur *)

EmptyDict == [k \in {} |-> ""]

\* json.loads(text), src/app.py:149.  Every text that is not one of the JSON
\* objects below is a truncated one, on which json.loads raises.
json_loads(text) ==
  CASE text = "{\"question\": \"X\"}"
         -> [raised |-> NoError, value |-> [question |-> "X"]]
    [] text = "{\"email\": \"a@b.com\"}"
         -> [raised |-> NoError, value |-> [email |-> "a@b.com"]]
    [] text = "{\"name\": \"Al\"}"
         -> [raised |-> NoError, value |-> [name |-> "Al"]]
    [] text = "{\"question\": \"X\", \"extra\": \"1\"}"
         -> [raised |-> NoError, value |-> [question |-> "X", extra |-> "1"]]
    [] text = "{\"q\": \"X\"}"
         -> [raised |-> NoError, value |-> [q |-> "X"]]
    [] text = "{\"text\": \"hi\"}"
         -> [raised |-> NoError, value |-> [text |-> "hi"]]
    [] text = "{}"
         -> [raised |-> NoError, value |-> EmptyDict]
    [] OTHER
         -> [raised |-> "JSONDecodeError", value |-> EmptyDict]

PyNone == [py |-> "None"]
PyDict(items) == [py |-> "dict", items |-> items]

\* json.dumps(result), src/app.py:159, on the values a tool call produces.
json_dumps(result) ==
  CASE result.py = "None" -> "null"
    [] result.py = "dict" /\ DOMAIN result.items = {"recorded"}
         -> "{\"recorded\": \"" \o result.items.recorded \o "\"}"
    [] result.py = "dict" /\ DOMAIN result.items = {"error"}
         -> "{\"error\": \"" \o result.items.error \o "\"}"

-----------------------------------------------------------------------------
(* the module's global namespace and the tool implementations *)

\* The registered tools: the names of the schemas advertised to the gateway.
tools == <<"record_user_details", "record_unknown_question">>

Function(params, required) ==
  [kind |-> "function", params |-> params, required |-> required]
Object == [kind |-> "object", params |-> {}, required |-> {}]
Unbound == [kind |-> None, params |-> {}, required |-> {}]

\* globals().get(tool_name), src/app.py:154: what the name is bound to in the
\* module's namespace (a def with its signature, another truthy object, or
\* nothing).
globals_get(tool_name) ==
  CASE tool_name = "record_user_details"
         -> Function({"email", "name", "notes"}, {"email"})
    [] tool_name = "record_unknown_question"
         -> Function({"question"}, {"question"})
    [] tool_name = "push"
         -> Function({"text"}, {"text"})
    [] tool_name \in {"tools", "record_user_details_json",
                      "record_unknown_question_json", "json", "os", "requests"}
         -> Object
    [] OTHER -> Unbound

\* What a call leaves behind: the exception it raised (or NoError), the value
\* it returned, the lines it printed and the function bodies that ran.
Outcome(raised, value, printed, invoked) ==
  [raised |-> raised, value |-> value, printed |-> printed, invoked |-> invoked]

\* A push whose failure is not contained: the exception leaves push.
push_propagates(text, channel) ==
  IF channel = "up"
  THEN Outcome(NoError, PyNone, <<"Notification sent: " \o text>>, <<>>)
  ELSE Outcome("ConnectionError", PyNone, <<>>, <<>>)

\* push(text), src/app.py:18-32: requests.post and raise_for_status inside
\* try; any Exception is printed and swallowed.
push(text, channel) ==
  IF channel = "up"
  THEN Outcome(NoError, PyNone, <<"Notification sent: " \o text>>, <<>>)
  ELSE Outcome(NoError, PyNone, <<"Notification failed: ConnectionError">>, <<>>)

Arg(kwargs, param, default) ==
  IF param \in DOMAIN kwargs THEN kwargs[param] ELSE default

\* record_user_details(email, name=..., notes=...), src/app.py:35-38
record_user_details(kwargs, channel) ==
  LET email == kwargs["email"]
      name == Arg(kwargs, "name", "Name not provided")
      notes == Arg(kwargs, "notes", "not provided")
      sent == push("Recording " \o name \o " with email " \o email
                   \o " and notes " \o notes, channel)
  IN  IF sent.raised # NoError
      THEN Outcome(sent.raised, PyNone, sent.printed, <<>>)
      ELSE Outcome(NoError, PyDict([recorded |-> "ok"]), sent.printed, <<>>)

\* record_unknown_question(question), src/app.py:41-44
record_unknown_question(kwargs, channel) ==
  LET sent == push("Recording question: " \o kwargs["question"], channel)
  IN  IF sent.raised # NoError
      THEN Outcome(sent.raised, PyNone, sent.printed, <<>>)
      ELSE Outcome(NoError, PyDict([recorded |-> "ok"]), sent.printed, <<>>)

\* Whether tool(**arguments), src/app.py:155, gets as far as the body of a
\* function: the object is callable and the keywords bind to its signature.
binds(tool, arguments) ==
  /\ tool.kind = "function"
  /\ DOMAIN arguments \subseteq tool.params
  /\ tool.required \subseteq DOMAIN arguments

\* tool(**arguments), src/app.py:155, for a truthy tool: a TypeError when the
\* object is not callable or the keywords do not bind to the signature,
\* otherwise the body of the function runs.
call(tool, tool_name, arguments, channel) ==
  IF ~binds(tool, arguments)
  THEN Outcome("TypeError", PyNone, <<>>, <<>>)
  ELSE LET body ==
             CASE tool_name = "record_user_details"
                    -> record_user_details(arguments, channel)
               [] tool_name = "record_unknown_question"
                    -> record_unknown_question(arguments, channel)
               [] tool_name = "push"
                    -> push(arguments["text"], channel)
       IN  [body EXCEPT !.invoked =
              <<[name |-> tool_name, kwargs |-> arguments,
                 returned |-> body.value, raised |-> body.raised]>>]

\* What handle_tool_call has done so far: results is the list being built.
Handled(raised, results, printed, invoked) ==
  [raised |-> raised, results |-> results, printed |-> printed,
   invoked |-> invoked]

\* The tool message of one call, src/app.py:157-161.
tool_message(result, tool_call) ==
  [role |-> "tool", content |-> json_dumps(result),
   tool_call_id |-> tool_call.id]

\* The result for a name bound to nothing, src/app.py:155.
not_found(tool_name) ==
  PyDict([error |-> "Tool " \o tool_name \o " not found"])

\* The loop of handle_tool_call from its i-th tool call on, src/app.py:147-161.
\* An exception leaves the loop at once: the results built so far are lost to
\* the caller, what was printed and invoked before it has happened.
RECURSIVE handle_from(_, _, _, _)
handle_from(tool_calls, i, acc, channel) ==
  IF i > Len(tool_calls) THEN acc
  ELSE
    LET tool_call == tool_calls[i]
        tool_name == tool_call.function.name
        arguments == json_loads(tool_call.function.arguments)
    IN  IF arguments.raised # NoError
        THEN [acc EXCEPT !.raised = arguments.raised]
        ELSE
          LET printed == Append(acc.printed, "Tool called: " \o tool_name)
              tool == globals_get(tool_name)
              out == IF tool.kind # None
                     THEN call(tool, tool_name, arguments.value, channel)
                     ELSE Outcome(NoError, not_found(tool_name), <<>>, <<>>)
          IN  IF out.raised # NoError
              THEN Handled(out.raised, acc.results, printed \o out.printed,
                           acc.invoked \o out.invoked)
              ELSE handle_from(tool_calls, i + 1,
                     Handled(NoError,
                             Append(acc.results,
                                    tool_message(out.value, tool_call)),
                             printed \o out.printed,
                             acc.invoked \o out.invoked),
                     channel)

\* Me.handle_tool_call(tool_calls), src/app.py:134-163
handle_tool_call(tool_calls, channel) ==
  handle_from(tool_calls, 1, Handled(NoError, <<>>, <<>>, <<>>), channel)

-----------------------------------------------------------------------------
(* the agent and the inputs of a turn *)

\* Me.__init__, src/app.py:105-132: the persona.  The repository ships no me
\* folder, so both loads end in their FileNotFoundError branch.
Me ==
  [name |-> "Your Name",
   linkedin |-> "No LinkedIn data available.",
   summary |-> "No summary available."]

\* Me.system_prompt, src/app.py:165-183 (the instruction template shortened
\* to its first sentence).
system_prompt(self) ==
  "You are acting as " \o self.name \o ". "
  \o "\n\n## Summary:\n" \o self.summary
  \o "\n\n## LinkedIn Profile:\n" \o self.linkedin \o "\n\n"
  \o "With this context, please chat with the user, always staying in character as "
  \o self.name \o "."

\* The prior history gradio passes (type="messages"): the first n messages of
\* an earlier exchange.
History(n) ==
  [i \in 1..n |->
     [role |-> IF i % 2 = 1 THEN "user" ELSE "assistant",
      content |-> "earlier message " \o ToString(i)]]

\* A tool call as the gateway requests it, before it is given its id.
Request(name, arguments) == [name |-> name, arguments |-> arguments]

\* The tool calls the gateway stub may request: registered tools with
\* arguments that fit, names bound to nothing, truncated payloads, arguments
\* that do not fit the signature, and names of other globals of the module.
Requests ==
  { Request("record_unknown_question", "{\"question\": \"X\"}"),
    Request("record_user_details", "{\"email\": \"a@b.com\"}"),
    Request("search_web", "{\"q\": \"X\"}"),
    Request("search_web", "{\"q\": "),
    Request("record_unknown_question", "{\"question\": "),
    Request("record_user_details", "{\"name\": \"Al\"}"),
    Request("record_unknown_question", "{\"question\": \"X\", \"extra\": \"1\"}"),
    Request("push", "{\"text\": \"hi\"}"),
    Request("tools", "{}") }

Batches == UNION { [1..n -> Requests] : n \in 1..MaxBatch }

\* The single calls the stub may go on to request round after round: a tool
\* that runs, a name bound to nothing, a truncated payload and arguments that
\* do not fit.
Laters ==
  { Request("record_unknown_question", "{\"question\": \"X\"}"),
    Request("search_web", "{\"q\": \"X\"}"),
    Request("record_unknown_question", "{\"question\": "),
    Request("record_user_details", "{\"name\": \"Al\"}") }

\* The id the gateway gives the i-th tool call of its n-th response.
ToolCallId(n, i, len) ==
  "call_" \o ToString(n) \o "_" \o ToString(len + 1 - i)

\* response.choices[0] when the gateway requests tool calls on its n-th call.
ToolCallsResponse(n, batch) ==
  [finish_reason |-> "tool_calls",
   message |->
     [role |-> "assistant",
      content |-> IF n % 2 = 1 THEN None ELSE "Step " \o ToString(n),
      tool_calls |->
        [i \in 1..Len(batch) |->
           [id |-> ToolCallId(n, i, Len(batch)),
            function |-> [name |-> batch[i].name,
                          arguments |-> batch[i].arguments]]]]]

\* response.choices[0] of any other response.
FinalResponse(finish_reason, content) ==
  [finish_reason |-> finish_reason,
   message |-> [role |-> "assistant", content |-> content, tool_calls |-> <<>>]]

NoResponse == FinalResponse(None, None)

\* The responses that request no tool call, and the ways a call fails.
Finals ==
  { FinalResponse("stop", "Hello"), FinalResponse("stop", "Noted."),
    FinalResponse("length", None) }
GatewayErrors == {"APIConnectionError", "RateLimitError"}
Channels == {"up", "unreachable"}

-----------------------------------------------------------------------------
(* the state *)

VARIABLES
  me,            \* the agent, shared by the turns
  channel,       \* whether the notification service can be reached
  history,       \* history[t]: the caller's history list of turn t
  inbox,         \* inbox[t]: the user's message of turn t
  gwFirst,       \* gwFirst[t]: the batch the gateway stub requests at first
  gwLater,       \* gwLater[t]: the single call it requests once it has moved on
  gwPhase,       \* gwPhase[t]: "first" or "later"
  pc,            \* pc[t]: where chat is: off, idle, loop, calling, tools, posting,
                 \* returned, raised
  messages,      \* the locals of chat
  done,
  iteration,
  response,
  results_so_far, \* results_so_far[t]: the list results handle_tool_call is building
  result,        \* what chat returned
  error,         \* the exception that left chat
  printed,       \* printed[t]: the lines turn t wrote to stdout
  invoked,       \* invoked[t]: the function bodies run for turn t, in order
  gatewayCalls   \* gatewayCalls[t]: the calls of completions.create of turn t

env == <<me, channel, history, inbox, gwFirst, gwLater>>
locals == <<messages, done, iteration, response>>
vars == <<me, channel, history, inbox, gwFirst, gwLater, gwPhase, pc, messages,
          done, iteration, response, results_so_far, result, error, printed,
          invoked, gatewayCalls>>

\* The state once Me() is constructed, with the turns of `active` about to be
\* submitted by their callers.
InitWith(active, firsts, laters) ==
  /\ me = Me
  /\ channel \in Channels
  /\ \E n \in {0, MaxHist} : history = [t \in Turns |-> History(n)]
  /\ inbox = [t \in Turns |-> "hi " \o ToString(t)]
  /\ \E first \in firsts : gwFirst = [t \in Turns |-> first]
  /\ \E later \in laters : gwLater = [t \in Turns |-> later]
  /\ gwPhase = [t \in Turns |-> "first"]
  /\ pc = [t \in Turns |-> IF t \in active THEN "idle" ELSE "off"]
  /\ messages = [t \in Turns |-> <<>>]
  /\ done = [t \in Turns |-> FALSE]
  /\ iteration = [t \in Turns |-> 0]
  /\ response = [t \in Turns |-> NoResponse]
  /\ results_so_far = [t \in Turns |-> <<>>]
  /\ result = [t \in Turns |-> None]
  /\ error = [t \in Turns |-> NoError]
  /\ printed = [t \in Turns |-> <<>>]
  /\ invoked = [t \in Turns |-> <<>>]
  /\ gatewayCalls = [t \in Turns |-> 0]

Init == InitWith({1}, Batches, Laters)

\* The state once Me() is constructed, with two callers about to submit a turn
\* each at the same time: different messages, different histories, and a
\* gateway that asks each turn for different tools.
InitTwo ==
  /\ me = Me
  /\ channel \in Channels
  /\ history = [t \in Turns |-> History(IF t = 1 THEN 0 ELSE MaxHist)]
  /\ inbox = [t \in Turns |-> "hi " \o ToString(t)]
  /\ gwFirst = [t \in Turns |->
       IF t = 1
       THEN <<Request("record_unknown_question", "{\"question\": \"X\"}"),
              Request("search_web", "{\"q\": \"X\"}")>>
       ELSE <<Request("record_user_details", "{\"email\": \"a@b.com\"}")>>]
  /\ gwLater = [t \in Turns |->
       IF t = 1
       THEN Request("push", "{\"text\": \"hi\"}")
       ELSE Request("record_unknown_question", "{\"question\": ")]
  /\ gwPhase = [t \in Turns |-> "first"]
  /\ pc = [t \in Turns |-> "idle"]
  /\ messages = [t \in Turns |-> <<>>]
  /\ done = [t \in Turns |-> FALSE]
  /\ iteration = [t \in Turns |-> 0]
  /\ response = [t \in Turns |-> NoResponse]
  /\ results_so_far = [t \in Turns |-> <<>>]
  /\ result = [t \in Turns |-> None]
  /\ error = [t \in Turns |-> NoError]
  /\ printed = [t \in Turns |-> <<>>]
  /\ invoked = [t \in Turns |-> <<>>]
  /\ gatewayCalls = [t \in Turns |-> 0]

-----------------------------------------------------------------------------
(* Me.chat, one action per step between two calls out of it *)

\* The list chat builds at src/app.py:203-207.
initial_messages(self, message, hist) ==
  <<[role |-> "system", content |-> system_prompt(self)]>>
  \o hist
  \o <<[role |-> "user", content |-> message]>>

\* A loop without its cap: it runs until the gateway stops asking for tools.
loop_unbounded(is_done, n) == ~is_done

\* A loop that does not look at done: it runs on after a final answer.
loop_ignores_done(is_done, n) == n < max_iterations

\* The condition of the while loop, src/app.py:213.
loop_continues(is_done, n) == ~is_done /\ n < max_iterations

\* The two statements swapped: the results go in before the message that
\* asked for them.
appended_results_first(msgs, message_with_tools, results) ==
  (msgs \o results) \o <<message_with_tools>>

\* The results dropped: only the assistant message is added.
appended_message_only(msgs, message_with_tools, results) ==
  msgs \o <<message_with_tools>>

\* messages.append(message_with_tools); messages.extend(results),
\* src/app.py:234-235.
appended(msgs, message_with_tools, results) ==
  (msgs \o <<message_with_tools>>) \o results

\* The value chat returns, src/app.py:242.
returned_content(resp) == resp.message.content

\* The warning and its condition, src/app.py:239-240.
cap_warning(n) ==
  IF n >= max_iterations THEN <<"Max iterations reached">> ELSE <<>>

\* A chat that builds its conversation in the caller's list (history.append of
\* the user message) instead of in a new one.
ChatStart_in_place(t) ==
  /\ pc[t] = "idle"
  /\ history' = [history EXCEPT ![t] =
       @ \o <<[role |-> "user", content |-> inbox[t]]>>]
  /\ messages' = [messages EXCEPT ![t] =
       <<[role |-> "system", content |-> system_prompt(me)]>> \o history'[t]]
  /\ done' = [done EXCEPT ![t] = FALSE]
  /\ iteration' = [iteration EXCEPT ![t] = 0]
  /\ pc' = [pc EXCEPT ![t] = "loop"]
  /\ UNCHANGED <<me, channel, inbox, gwFirst, gwLater, gwPhase, response, results_so_far,
                 result, error, printed, invoked, gatewayCalls>>

\* src/app.py:203-211: chat is entered.
ChatStart(t) ==
  /\ pc[t] = "idle"
  /\ messages' = [messages EXCEPT ![t] = initial_messages(me, inbox[t], history[t])]
  /\ done' = [done EXCEPT ![t] = FALSE]
  /\ iteration' = [iteration EXCEPT ![t] = 0]
  /\ pc' = [pc EXCEPT ![t] = "loop"]
  /\ UNCHANGED <<env, gwPhase, response, results_so_far, result, error, printed, invoked,
                 gatewayCalls>>

\* The loop test holds, the round is counted and completions.create is
\* called, src/app.py:213-221: the thread waits for the gateway's answer.
CallsGateway(t) ==
  /\ pc[t] = "loop"
  /\ loop_continues(done[t], iteration[t])
  /\ iteration' = [iteration EXCEPT ![t] = @ + 1]
  /\ gatewayCalls' = [gatewayCalls EXCEPT ![t] = @ + 1]
  /\ pc' = [pc EXCEPT ![t] = "calling"]
  /\ UNCHANGED <<env, gwPhase, messages, done, response, results_so_far,
                 result, error, printed, invoked>>

\* A chat that puts the assistant message into the conversation as soon as it
\* is received, before handle_tool_call is entered.
GatewayToolCalls_appends(t) ==
  /\ pc[t] = "calling"
  /\ \E phase \in (IF gwPhase[t] = "first" THEN {"first", "later"} ELSE {"later"}) :
       /\ gwPhase' = [gwPhase EXCEPT ![t] = phase]
       /\ response' = [response EXCEPT ![t] =
            ToolCallsResponse(gatewayCalls[t],
              IF phase = "first" THEN gwFirst[t] ELSE <<gwLater[t]>>)]
  /\ messages' = [messages EXCEPT ![t] = @ \o <<response'[t].message>>]
  /\ pc' = [pc EXCEPT ![t] = "tools"]
  /\ results_so_far' = [results_so_far EXCEPT ![t] = <<>>]
  /\ UNCHANGED <<env, done, iteration, result, error, printed, invoked,
                 gatewayCalls>>

\* completions.create answers with a request for tool calls, src/app.py:
\* 221-231: the answer is read and handle_tool_call entered.
GatewayToolCalls(t) ==
  /\ pc[t] = "calling"
  /\ \E phase \in (IF gwPhase[t] = "first" THEN {"first", "later"} ELSE {"later"}) :
       /\ gwPhase' = [gwPhase EXCEPT ![t] = phase]
       /\ response' = [response EXCEPT ![t] =
            ToolCallsResponse(gatewayCalls[t],
              IF phase = "first" THEN gwFirst[t] ELSE <<gwLater[t]>>)]
  /\ pc' = [pc EXCEPT ![t] = "tools"]
  /\ results_so_far' = [results_so_far EXCEPT ![t] = <<>>]
  /\ UNCHANGED <<env, messages, done, iteration, result, error, printed,
                 invoked, gatewayCalls>>

\* A chat that takes only finish reason "stop" for a final answer and goes
\* round the loop again on any other.
GatewayFinal_stop_only(t) ==
  /\ pc[t] = "calling"
  /\ \E final \in Finals :
       /\ response' = [response EXCEPT ![t] = final]
       /\ done' = [done EXCEPT ![t] = (final.finish_reason = "stop")]
  /\ pc' = [pc EXCEPT ![t] = "loop"]
  /\ UNCHANGED <<env, gwPhase, messages, iteration, results_so_far, result,
                 error, printed, invoked, gatewayCalls>>

\* completions.create answers with any other finish reason, src/app.py:
\* 221-223, 236-237: done is set and the loop test comes next.
GatewayFinal(t) ==
  /\ pc[t] = "calling"
  /\ \E final \in Finals : response' = [response EXCEPT ![t] = final]
  /\ done' = [done EXCEPT ![t] = TRUE]
  /\ pc' = [pc EXCEPT ![t] = "loop"]
  /\ UNCHANGED <<env, gwPhase, messages, iteration, results_so_far, result,
                 error, printed, invoked, gatewayCalls>>

\* A chat that catches the failure of completions.create and goes round the
\* loop again.
GatewayFails_retried(t) ==
  /\ pc[t] = "calling"
  /\ \E e \in GatewayErrors : error' = [error EXCEPT ![t] = e]
  /\ pc' = [pc EXCEPT ![t] = "loop"]
  /\ UNCHANGED <<env, gwPhase, messages, done, iteration, response,
                 results_so_far, result, printed, invoked, gatewayCalls>>

\* completions.create raises, src/app.py:217-221: nothing in chat catches it.
GatewayFails(t) ==
  /\ pc[t] = "calling"
  /\ \E e \in GatewayErrors : error' = [error EXCEPT ![t] = e]
  /\ pc' = [pc EXCEPT ![t] = "raised"]
  /\ UNCHANGED <<env, gwPhase, messages, done, iteration, response,
                 results_so_far, result, printed, invoked, gatewayCalls>>

\* The tool call the loop of handle_tool_call is at in turn t: the one after
\* the results built so far, src/app.py:147.
current_call(t) == response[t].message.tool_calls[Len(results_so_far[t]) + 1]

\* An exception leaves handle_tool_call and, nothing catching it, chat.
Raises(t, exception) ==
  /\ error' = [error EXCEPT ![t] = exception]
  /\ pc' = [pc EXCEPT ![t] = "raised"]
  /\ UNCHANGED <<messages, results_so_far>>

\* A chat that keeps the conversation on the agent (self.messages) instead of
\* in a local: every turn under way sees what this turn adds.
Completes_shared(t, value) ==
  LET message_with_tools == response[t].message
      built == Append(results_so_far[t], tool_message(value, current_call(t)))
  IN  /\ results_so_far' = [results_so_far EXCEPT ![t] = built]
      /\ IF Len(built) = Len(message_with_tools.tool_calls)
         THEN /\ messages' = [u \in Turns |->
                    IF pc[u] \in {"loop", "calling", "tools", "posting"}
                    THEN appended(messages[u], message_with_tools, built)
                    ELSE messages[u]]
              /\ pc' = [pc EXCEPT ![t] = "loop"]
         ELSE /\ pc' = [pc EXCEPT ![t] = "tools"]
              /\ UNCHANGED messages
      /\ UNCHANGED error

\* The call at hand has given value: its tool message is added to results,
\* src/app.py:157-161, and the loop goes on to the next call; after the last
\* call handle_tool_call returns results (163) and chat adds the message and
\* the results to the conversation (231-235).
Completes(t, value) ==
  LET message_with_tools == response[t].message
      built == Append(results_so_far[t], tool_message(value, current_call(t)))
  IN  /\ results_so_far' = [results_so_far EXCEPT ![t] = built]
      /\ IF Len(built) = Len(message_with_tools.tool_calls)
         THEN /\ messages' = [messages EXCEPT ![t] =
                    appended(@, message_with_tools, built)]
              /\ pc' = [pc EXCEPT ![t] = "loop"]
         ELSE /\ pc' = [pc EXCEPT ![t] = "tools"]
              /\ UNCHANGED messages
      /\ UNCHANGED error

\* handle_tool_call takes up its next tool call, src/app.py:147-155: the
\* payload is parsed, the notice printed, the name looked up and the object
\* called.  A name bound to nothing gives its result at once; a function whose
\* keywords bind runs up to the requests.post of push (src/app.py:21), where
\* the thread waits for the notification service.
ToolCallStarts(t) ==
  /\ pc[t] = "tools"
  /\ LET tool_name == current_call(t).function.name
         arguments == json_loads(current_call(t).function.arguments)
         tool == globals_get(tool_name)
     IN  IF arguments.raised # NoError
         THEN Raises(t, arguments.raised) /\ UNCHANGED printed
         ELSE /\ printed' = [printed EXCEPT ![t] =
                   Append(@, "Tool called: " \o tool_name)]
              /\ IF tool.kind = None
                 THEN Completes(t, not_found(tool_name))
                 ELSE IF ~binds(tool, arguments.value)
                 THEN Raises(t, "TypeError")
                 ELSE /\ pc' = [pc EXCEPT ![t] = "posting"]
                      /\ UNCHANGED <<messages, results_so_far, error>>
  /\ UNCHANGED <<env, gwPhase, done, iteration, response, result, invoked,
                 gatewayCalls>>

\* requests.post is answered or fails, src/app.py:21-32: push prints its line
\* and returns, the function returns its value (src/app.py:38, 44) and the
\* call completes.
PostAnswers(t) ==
  /\ pc[t] = "posting"
  /\ LET tool_name == current_call(t).function.name
         arguments == json_loads(current_call(t).function.arguments).value
         out == call(globals_get(tool_name), tool_name, arguments, channel)
     IN  /\ printed' = [printed EXCEPT ![t] = @ \o out.printed]
         /\ invoked' = [invoked EXCEPT ![t] = @ \o out.invoked]
         /\ IF out.raised # NoError
            THEN Raises(t, out.raised)
            ELSE Completes(t, out.value)
  /\ UNCHANGED <<env, gwPhase, done, iteration, response, result, gatewayCalls>>

\* The loop is left and chat returns, src/app.py:239-242.
Return(t) ==
  /\ pc[t] = "loop"
  /\ ~loop_continues(done[t], iteration[t])
  /\ printed' = [printed EXCEPT ![t] = @ \o cap_warning(iteration[t])]
  /\ result' = [result EXCEPT ![t] = returned_content(response[t])]
  /\ pc' = [pc EXCEPT ![t] = "returned"]
  /\ UNCHANGED <<env, gwPhase, locals, results_so_far, error, invoked, gatewayCalls>>

\* One step of turn t.
Step(t) ==
  \/ ChatStart(t)
  \/ CallsGateway(t)
  \/ GatewayToolCalls(t)
  \/ GatewayFinal(t)
  \/ GatewayFails(t)
  \/ ToolCallStarts(t)
  \/ PostAnswers(t)
  \/ Return(t)

Next == \E t \in Turns : Step(t)

Spec == Init /\ [][Next]_vars

\* Two turns on the one agent, their steps interleaved in any order.
SpecTwo == InitTwo /\ [][Next]_vars

-----------------------------------------------------------------------------
(* what the claims speak of *)

Registered == { tools[i] : i \in DOMAIN tools }

\* The tool calls of the response turn t is handling.
Batch(t) == response[t].message.tool_calls

\* This step is turn t's execution of the tool calls it was given.
ExecutedTools(t) ==
  /\ pc[t] \in {"tools", "posting"}
  /\ pc'[t] \notin {"tools", "posting"}

\* The messages this step added to the conversation of turn t.
Added(t) == SubSeq(messages'[t], Len(messages[t]) + 1, Len(messages'[t]))

IsToolMessage(m) == m.role = "tool"
ToolResults(msgs) == SelectSeq(msgs, IsToolMessage)

\* A count that every step of a turn lowers: the steps the turn has left at
\* most.
\* A round is the gateway call, its answer and, for each tool call of its
\* batch, at most the two steps to the post and from it.
RoundSteps == 2 * MaxBatch + 2

Measure(t) ==
  LET rounds == RoundSteps * (max_iterations - iteration[t])
      calls == Len(response[t].message.tool_calls) - Len(results_so_far[t])
  IN  CASE pc[t] = "idle" -> RoundSteps * max_iterations + 2
        [] pc[t] = "calling" -> rounds + 2 + 2 * MaxBatch
        [] pc[t] = "tools" -> rounds + 1 + 2 * calls
        [] pc[t] = "posting" -> rounds + 2 * calls
        [] pc[t] = "loop" -> rounds + 1
        [] OTHER -> 0

TotalMeasure == Measure(1) + Measure(2)

CapWarned(t) ==
  \E i \in DOMAIN printed[t] : printed[t][i] = "Max iterations reached"

-----------------------------------------------------------------------------
\* C1: whatever the gateway answers, a turn issues at most max_iterations
\* gateway calls and gives control back to its caller: no turn ever makes an
\* 11th call, a turn at its loop test can always take a step (call the
\* gateway or return) and so can a turn waiting for the gateway or inside the
\* executor, and every step
\* lowers a count that starts at RoundSteps * max_iterations + 2 and is never
\* negative, so no turn runs forever.
C1_BoundedCallsThenReturns ==
  /\ [](\A t \in Turns :
          /\ gatewayCalls[t] <= max_iterations
          /\ Measure(t) >= 0
          /\ pc[t] \in {"idle", "loop", "calling", "tools", "posting"} =>
               ENABLED Step(t))
  /\ [][TotalMeasure' < TotalMeasure]_vars

\* The gateway asked for tools on all max_iterations calls and chat returned.
C1_Witness ==
  \E t \in Turns :
    pc[t] = "returned" /\ gatewayCalls[t] = max_iterations /\ ~done[t]

\* C2: in every round in which the gateway returns a batch of n tool calls,
\* exactly n tool messages are added, the i-th with the id of the i-th call.
C2_OneResultPerRequest ==
  [][\A t \in Turns :
       ExecutedTools(t) =>
         LET results == ToolResults(Added(t))
         IN  /\ Len(results) = Len(Batch(t))
             /\ \A i \in 1..Len(Batch(t)) :
                  results[i].tool_call_id = Batch(t)[i].id]_vars

\* C3: when the gateway has answered tool_calls on all max_iterations calls,
\* chat does not raise; it returns the content of the last response received
\* and prints the cap warning.
C3_CapReturnsLastContent ==
  \A t \in Turns :
    ( /\ gatewayCalls[t] = max_iterations
      /\ ~done[t]
      /\ response[t].finish_reason = "tool_calls"
      /\ error[t] \notin GatewayErrors )
    => /\ pc[t] # "raised"
       /\ pc[t] = "returned" =>
            result[t] = response[t].message.content /\ CapWarned(t)

\* C4: a tool call whose name is not a registered tool runs no implementation
\* and gets the result {"error": "Tool <name> not found"}, and it does not
\* abort the turn: the functions a step runs are all registered tools, a
\* completed batch has the not-found result at each such call, and a batch of
\* such calls alone is always completed.
C4_UnregisteredNotFound ==
  [][\A t \in Turns :
       /\ \A j \in (Len(invoked[t]) + 1)..Len(invoked'[t]) :
            invoked'[t][j].name \in Registered
       /\ ExecutedTools(t) =>
            LET unregistered ==
                  { i \in 1..Len(Batch(t)) :
                      Batch(t)[i].function.name \notin Registered }
            IN  /\ pc'[t] = "loop" =>
                     \A i \in unregistered :
                       ToolResults(Added(t))[i].content =
                         "{\"error\": \"Tool " \o Batch(t)[i].function.name
                         \o " not found\"}"
                /\ unregistered = 1..Len(Batch(t)) => pc'[t] = "loop"]_vars

\* C5: a batch in which a registered tool is called with a payload that does
\* not parse is still completed: the turn goes on, every call has its tool
\* message, and the message of the unparsable call is not a success.
C5_MalformedPayloadRecovered ==
  [][\A t \in Turns :
       ExecutedTools(t) =>
         LET malformed ==
               { i \in 1..Len(Batch(t)) :
                   /\ Batch(t)[i].function.name \in Registered
                   /\ json_loads(Batch(t)[i].function.arguments).raised
                        # NoError }
         IN  malformed # {} =>
               /\ pc'[t] = "loop"
               /\ Len(ToolResults(Added(t))) = Len(Batch(t))
               /\ \A i \in malformed :
                    ToolResults(Added(t))[i].content
                      # "{\"recorded\": \"ok\"}"]_vars

\* C6: once a gateway call has failed, the turn has ended with that failure:
\* chat has raised, has returned no answer, and takes no further step (no
\* retry, no other gateway call, no tool execution).
C6_GatewayFailureEndsTurn ==
  \A t \in Turns :
    error[t] \in GatewayErrors =>
      pc[t] = "raised" /\ result[t] = None /\ ~ENABLED Step(t)

\* A gateway call failed after a round of tool calls had been executed.
C6_Witness ==
  \E t \in Turns :
    error[t] \in GatewayErrors /\ gatewayCalls[t] > 1 /\ invoked[t] # <<>>

\* The tool calls the gateway has requested in the rounds completed so far,
\* in the order requested.
RECURSIVE Requested(_)
Requested(msgs) ==
  IF Len(msgs) = 0 THEN <<>>
  ELSE LET m == Head(msgs)
       IN  (IF m.role = "assistant" /\ "tool_calls" \in DOMAIN m
            THEN m.tool_calls ELSE <<>>)
           \o Requested(Tail(msgs))

IsForRegistered(tool_call) == tool_call.function.name \in Registered

\* The rounds of tool calls completed so far.
RECURSIVE Rounds(_)
Rounds(msgs) ==
  IF Len(msgs) = 0 THEN 0
  ELSE (IF Head(msgs).role = "assistant" /\ "tool_calls" \in DOMAIN Head(msgs)
        THEN 1 ELSE 0)
       + Rounds(Tail(msgs))

\* C7: when the gateway answers tool_calls on its first k calls, each for
\* registered tools, and a final answer on call k+1, nothing but a failure of
\* the gateway keeps chat from that answer, and chat then has issued k+1
\* gateway calls, has invoked each requested tool once, with the requested
\* arguments and in request order, and returns the content of the final
\* answer.
C7_ToolRoundsThenFinal ==
  \A t \in Turns :
    /\ error[t] \notin GatewayErrors \cup {NoError} =>
         \E i \in 1..Len(Batch(t)) : ~IsForRegistered(Batch(t)[i])
    /\ (pc[t] = "returned" /\ done[t]) =>
         LET asked == SelectSeq(Requested(messages[t]), IsForRegistered)
         IN  /\ gatewayCalls[t] = Rounds(messages[t]) + 1
             /\ result[t] = response[t].message.content
             /\ Len(invoked[t]) = Len(asked)
             /\ \A i \in 1..Len(asked) :
                  /\ invoked[t][i].name = asked[i].function.name
                  /\ invoked[t][i].kwargs =
                       json_loads(asked[i].function.arguments).value

\* C8: when the first response of the gateway is a final answer, chat has
\* made exactly one gateway call, has run no tool and has added nothing after
\* the user message; it can only return, and it returns that response's
\* content.
C8_FirstAnswerFinal ==
  \A t \in Turns :
    (done[t] /\ iteration[t] = 1) =>
      /\ gatewayCalls[t] = 1
      /\ invoked[t] = <<>>
      /\ messages[t] = initial_messages(me, inbox[t], history[t])
      /\ pc[t] \in {"loop", "returned"}
      /\ pc[t] = "loop" =>
           /\ ENABLED Return(t)
           /\ ~ENABLED CallsGateway(t)
      /\ pc[t] = "returned" => result[t] = response[t].message.content

\* chat returned "Hello", the gateway's first and final answer.
C8_Witness ==
  \E t \in Turns :
    /\ pc[t] = "returned" /\ done[t] /\ iteration[t] = 1
    /\ result[t] = "Hello" /\ Len(history[t]) > 0

\* C9: a batch in which a registered tool is called with arguments that do not
\* fit its parameters (a required one missing, or one it does not have) is
\* still completed: the turn goes on, every call has its tool message, and the
\* message of the misfit call is not a success.
C9_MisfitArgumentsRecovered ==
  [][\A t \in Turns :
       ExecutedTools(t) =>
         LET misfit ==
               { i \in 1..Len(Batch(t)) :
                   LET name == Batch(t)[i].function.name
                       parsed == json_loads(Batch(t)[i].function.arguments)
                       tool == globals_get(name)
                   IN  /\ name \in Registered
                       /\ parsed.raised = NoError
                       /\ \/ ~(DOMAIN parsed.value \subseteq tool.params)
                          \/ ~(tool.required \subseteq DOMAIN parsed.value) }
         IN  misfit # {} =>
               /\ pc'[t] = "loop"
               /\ Len(ToolResults(Added(t))) = Len(Batch(t))
               /\ \A i \in misfit :
                    ToolResults(Added(t))[i].content
                      # "{\"recorded\": \"ok\"}"]_vars

IsFailedNotice(line) == line = "Notification failed: ConnectionError"

\* C10: every run of record_user_details or record_unknown_question returns
\* {"recorded": "ok"} and raises nothing, whether or not the notification
\* service can be reached; when it cannot, each run has printed its failure
\* notice.
C10_RecordedOkWhateverTheChannel ==
  \A t \in Turns :
    /\ \A i \in 1..Len(invoked[t]) :
         invoked[t][i].name \in Registered =>
           /\ invoked[t][i].returned = PyDict([recorded |-> "ok"])
           /\ invoked[t][i].raised = NoError
    /\ channel = "unreachable" =>
         Len(SelectSeq(printed[t], IsFailedNotice)) = Len(invoked[t])

\* Both tools have run while the notification service could not be reached,
\* record_user_details with an email alone.
C10_Witness ==
  \E t \in Turns :
    /\ channel = "unreachable"
    /\ \E i \in 1..Len(invoked[t]) :
         /\ invoked[t][i].name = "record_user_details"
         /\ DOMAIN invoked[t][i].kwargs = {"email"}
    /\ \E i \in 1..Len(invoked[t]) :
         invoked[t][i].name = "record_unknown_question"

\* The response turn t holds is one the gateway gave turn t in this round.
OwnResponse(t) ==
  \E batch \in {gwFirst[t], <<gwLater[t]>>} :
    response[t] = ToolCallsResponse(iteration[t], batch)

\* What this step adds to the conversation of turn t is the round of turn t:
\* the message of its own response, then the results of that message's calls.
AddsOwnRound(t) ==
  LET m == response[t].message
  IN  /\ OwnResponse(t)
      /\ Added(t) = <<m>> \o handle_tool_call(m.tool_calls, channel).results

\* C11: with two turns running at once on the agent, their steps interleaved,
\* the conversation of each turn holds its own system, history and user
\* messages and the assistant and tool messages of its own rounds, nothing
\* of the other turn: it starts as the turn's own initial sequence, and
\* every step of either turn leaves it as it is or appends a round of its
\* own turn to it; and the persona is as constructed.
C11_TurnsDoNotShareState ==
  /\ [](me = Me)
  /\ [][\A t \in Turns :
          /\ pc[t] = "idle" /\ pc'[t] # "idle" =>
               messages'[t] = initial_messages(Me, inbox[t], history[t])
          /\ pc[t] \notin {"off", "idle"} =>
               /\ Len(messages'[t]) >= Len(messages[t])
               /\ SubSeq(messages'[t], 1, Len(messages[t])) = messages[t]
               /\ Added(t) # <<>> => AddsOwnRound(t)]_vars

\* Both turns have completed a round and are each inside another batch,
\* waiting for the notification service: turn 1 in the first of its two
\* calls, with the notice of that call printed and no result built yet.
C11_Witness ==
  /\ pc[1] = "posting" /\ pc[2] = "posting"
  /\ Rounds(messages[1]) >= 1 /\ Rounds(messages[2]) >= 2
  /\ Len(Batch(1)) = 2 /\ results_so_far[1] = <<>>
  /\ printed[1][Len(printed[1])] = "Tool called: record_unknown_question"
  /\ messages[1] # messages[2]

\* rest is a sequence of completed rounds: an assistant message carrying
\* n >= 1 tool calls, then at once n tool messages, the i-th answering the
\* i-th call.
RECURSIVE CompletedRounds(_)
CompletedRounds(rest) ==
  IF Len(rest) = 0 THEN TRUE
  ELSE LET m == rest[1]
           n == IF "tool_calls" \in DOMAIN m THEN Len(m.tool_calls) ELSE 0
       IN  /\ m.role = "assistant"
           /\ n >= 1
           /\ Len(rest) >= n + 1
           /\ \A i \in 1..n :
                /\ IsToolMessage(rest[i + 1])
                /\ rest[i + 1].tool_call_id = m.tool_calls[i].id
           /\ CompletedRounds(SubSeq(rest, n + 2, Len(rest)))

\* The conversation of turn t is the sequence chat built at entry, then
\* completed rounds only.
InitialThenRounds(t) ==
  LET initial == initial_messages(me, inbox[t], history[t])
  IN  /\ Len(messages[t]) >= Len(initial)
      /\ SubSeq(messages[t], 1, Len(initial)) = initial
      /\ CompletedRounds(
           SubSeq(messages[t], Len(initial) + 1, Len(messages[t])))

\* C12: the messages passed at every gateway call are the initial sequence
\* [system prompt, history..., user message] unchanged, followed only by
\* completed rounds (an assistant tool-call message, then at once all its
\* results in request order), so no call is made while a request lacks its
\* result; and a step of a turn only ever appends to its conversation.
C12_CallsSeeCompletedRounds ==
  [][\A t \in Turns :
       /\ gatewayCalls'[t] # gatewayCalls[t] => InitialThenRounds(t)
       /\ pc[t] \notin {"off", "idle"} =>
            /\ Len(messages'[t]) >= Len(messages[t])
            /\ SubSeq(messages'[t], 1, Len(messages[t])) = messages[t]]_vars

\* A gateway call was just made, and is not answered yet, with a history, two
\* completed rounds and a round of more than one result in the conversation.
C12_Witness ==
  \E t \in Turns :
    /\ pc[t] = "calling"
    /\ Len(history[t]) > 0
    /\ Rounds(messages[t]) >= 2
    /\ Len(ToolResults(messages[t])) > Rounds(messages[t])
    /\ gatewayCalls[t] = Rounds(messages[t]) + 1

\* handle_tool_call is running for turn t, or has raised.
ExecutorRunningOrFailed(t) ==
  \/ pc[t] \in {"tools", "posting"}
  \/ pc[t] = "raised" /\ error[t] \notin GatewayErrors

\* handle_tool_call has returned for the response turn t holds.
ExecutorReturned(t) ==
  /\ pc[t] \in {"loop", "returned"}
  /\ response[t].finish_reason = "tool_calls"

\* C13 as stated: the assistant message carrying the requests is appended
\* before the executor is invoked, so whenever the executor is running or has
\* failed the conversation ends with that assistant message.
C13_MessageAppendedBeforeExecutor ==
  \A t \in Turns :
    ExecutorRunningOrFailed(t) =>
      messages[t][Len(messages[t])] = response[t].message

\* C13 as amended: the executor is invoked first; while it is running or after
\* it has failed the conversation does not hold the assistant message of
\* these requests (it holds the rounds before this one only), and once the
\* executor has returned the conversation ends with that assistant message
\* followed at once by the results of its requests.
C13_MessageAppendedAfterExecutor ==
  \A t \in Turns :
    /\ ExecutorRunningOrFailed(t) =>
         /\ \A i \in DOMAIN messages[t] : messages[t][i] # response[t].message
         /\ Rounds(messages[t]) = iteration[t] - 1
    /\ ExecutorReturned(t) =>
         LET n == Len(Batch(t))
             last == Len(messages[t])
         IN  /\ last > n
             /\ messages[t][last - n] = response[t].message
             /\ \A i \in 1..n :
                  /\ IsToolMessage(messages[t][last - n + i])
                  /\ messages[t][last - n + i].tool_call_id = Batch(t)[i].id
             /\ Rounds(messages[t]) = iteration[t]

\* The executor failed in a round after the first: the conversation holds the
\* earlier rounds and not the message whose requests were being executed.
C13_Witness ==
  \E t \in Turns :
    /\ pc[t] = "raised"
    /\ error[t] = "TypeError"
    /\ iteration[t] >= 2
    /\ Len(Batch(t)) >= 1

\* C14: the cap warning is recorded exactly when the turn ends without a
\* final answer; a turn that gets its final answer on any round up to and
\* including round max_iterations ends done and records no cap warning.
\* Stated of the turns whose rounds ran registered tools only.
C14_CapWarningIffAborted ==
  \A t \in Turns :
    /\ pc[t] = "returned"
    /\ \A i \in DOMAIN invoked[t] : invoked[t][i].name \in Registered
    => (CapWarned(t) <=> ~done[t])

\* C15: no step of chat changes the history list its caller passed, whether
\* the turn ends with an answer, at the cap or by an exception.
C15_HistoryNotModified ==
  [][\A t \in Turns : history'[t] = history[t]]_vars

\* A turn given a history has run tool rounds and ended by an exception of
\* the executor; the messages it built hold the rounds, the history does not.
C15_Witness ==
  \E t \in Turns :
    /\ pc[t] = "raised"
    /\ error[t] \notin GatewayErrors
    /\ Len(history[t]) = MaxHist
    /\ Rounds(messages[t]) >= 1
    /\ Len(messages[t]) > Len(history[t]) + 2

\* The notices the executor printed for turn t, one for each request it took up.
ToolCalledLines == { "Tool called: " \o r.name : r \in Requests }
IsToolCalledNotice(line) == line \in ToolCalledLines
ToolCalledNotices(t) == SelectSeq(printed[t], IsToolCalledNotice)

\* The tool_calls responses turn t has received.
ToolCallsResponses(t) == gatewayCalls[t] - (IF done[t] THEN 1 ELSE 0)

\* C16: when chat returns, every tool_calls response it received has had its
\* requests executed and its results appended, the response of the round at
\* the cap included: a turn that returns without a final answer has run the
\* executor in all max_iterations rounds, and the results of the last round
\* are in the conversation although no gateway call was made with them.
C16_EveryToolCallsResponseExecuted ==
  \A t \in Turns :
    pc[t] = "returned" =>
      /\ Rounds(messages[t]) = ToolCallsResponses(t)
      /\ LET requests == Len(Requested(messages[t]))
         IN  /\ Len(ToolCalledNotices(t)) = requests
             /\ Len(ToolResults(messages[t])) = requests
      /\ ~done[t] =>
           LET n == Len(Batch(t))
               last == Len(messages[t])
           IN  /\ gatewayCalls[t] = max_iterations
               /\ Rounds(messages[t]) = max_iterations
               /\ Len(ToolCalledNotices(t)) >= max_iterations
               /\ n >= 1 /\ last > n
               /\ messages[t][last - n] = response[t].message
               /\ \A i \in 1..n :
                    messages[t][last - n + i].tool_call_id = Batch(t)[i].id

\* A turn returned at the cap after running registered tools in its last
\* round, with the notification channel up.
C16_Witness ==
  \E t \in Turns :
    /\ pc[t] = "returned"
    /\ ~done[t]
    /\ Len(invoked[t]) >= max_iterations
    /\ IsForRegistered(Batch(t)[1])
    /\ channel = "up"

\* The response turn t holds has a finish reason other than tool_calls.
HoldsOtherFinishReason(t) ==
  response[t].finish_reason \notin {"tool_calls", None}

\* This step is the answer to a gateway call of turn t, and it brings such a
\* response.
ReceivesOtherFinishReason(t) ==
  /\ pc[t] = "calling" /\ pc'[t] # "calling"
  /\ response'[t] # response[t]
  /\ response'[t].finish_reason \notin {"tool_calls", None}

\* C17: a response with any finish reason other than tool_calls, "stop" or
\* not, ends the loop at once: on receiving it the turn is done, no tool is
\* executed and nothing is appended; the only step then left to the turn is
\* to return, with no further gateway call, and what it returns is the
\* content of that response.
C17_OtherFinishReasonEndsLoop ==
  /\ [](\A t \in Turns :
          HoldsOtherFinishReason(t) =>
            /\ done[t]
            /\ error[t] = NoError
            /\ pc[t] \in {"loop", "returned"}
            /\ pc[t] = "loop" =>
                 /\ ENABLED Return(t)
                 /\ ~ENABLED CallsGateway(t)
            /\ pc[t] = "returned" => result[t] = response[t].message.content)
  /\ [][\A t \in Turns :
          /\ ReceivesOtherFinishReason(t) =>
               /\ messages'[t] = messages[t]
               /\ invoked'[t] = invoked[t]
               /\ printed'[t] = printed[t]
          /\ HoldsOtherFinishReason(t) =>
               /\ gatewayCalls'[t] = gatewayCalls[t]
               /\ response'[t] = response[t]
               /\ messages'[t] = messages[t]
               /\ invoked'[t] = invoked[t]]_vars

\* After a round of tools the gateway answered with finish reason "length"
\* and no content, and chat returned that.
C17_Witness ==
  \E t \in Turns :
    /\ pc[t] = "returned"
    /\ response[t].finish_reason = "length"
    /\ Rounds(messages[t]) >= 1
    /\ result[t] = None

====
